---------------------------- MODULE Spec2Model ----------------------------
(***************************************************************************)
(* The authentication service of src/auth-service: the three gRPC handlers *)
(* of `impl Auth for AuthService` (auth.rs) running as concurrent tasks    *)
(* against the two stores shared through Arc<RwLock<..>>.                  *)
(*                                                                         *)
(* Strings are modelled as naturals; 0 is the empty string "".             *)
(* Every `.read().await` / `.write().await` is a step of its own (the task *)
(* may be suspended there); the store call made through the guard and the  *)
(* drop of the guard at the end of the statement are the following steps.  *)
(* users.rs and sessions.rs are not part of the sources at hand: the store *)
(* operations are modelled from the specification's section 4.1 and 4.2.   *)
(***************************************************************************)
EXTENDS Naturals, FiniteSets

\* ---- bounds of the model -------------------------------------------------
NumProcs == 2
MaxReqs == 3
MaxSignOuts == 4
NumUsernames == 2
NumPasswords == 2
NumUuids == 2
NumTokens == 2

Procs == 1..NumProcs
Usernames == 1..NumUsernames
Passwords == 1..NumPasswords
Uuids == 1..NumUuids
Tokens == 1..NumTokens

\* ---- values of the program -----------------------------------------------
\* "".to_owned()
EmptyStr == 0
\* Option::None of get_user_uuid
None == 0
\* StatusCode of the generated protobuf module
Success == "Success"
Failure == "Failure"

NoReq == [op |-> "none", username |-> EmptyStr, password |-> EmptyStr, session_token |-> EmptyStr]
NoResp == [status_code |-> "none", user_uuid |-> EmptyStr, session_token |-> EmptyStr]

VARIABLES
    users,        \* UsersImpl behind users_service: set of credential records
    sessions,     \* SessionsImpl behind sessions_service: set of session records
    usersRd,      \* tasks holding a read guard of users_service
    usersWr,      \* tasks holding the write guard of users_service
    sessWr,       \* tasks holding the write guard of sessions_service
    pc,           \* position of each task in its handler
    req,          \* the request each task is serving
    result,       \* the local `result` / `user_uuid` of sign_in, the outcome of the lookup in create_user
    resp,         \* the reply of the handler
    nReq,         \* SignUp and SignIn requests started so far (bounded by MaxReqs)
    nOut,         \* SignOut requests started so far (bounded by MaxSignOuts)
    atStart,      \* history: how the request's credentials related to the user store, or its token to the session store, when it arrived
    issued,       \* history: tokens ever returned by create_session
    nLookupOk,    \* history: sign_in lookups that returned Some(uuid)
    nCreated,     \* history: sessions ever created
    suOk,         \* history: per username, SignUp replies with Success
    suFailed,     \* history: usernames for which a SignUp replied Failure
    soSeen        \* history: kinds of token for which a SignOut has replied

stores == <<users, sessions>>
locks == <<usersRd, usersWr, sessWr>>
hist == <<atStart, issued, nLookupOk, nCreated, suOk, suFailed, soSeen>>
vars == <<users, sessions, usersRd, usersWr, sessWr, pc, req, result, resp, nReq, nOut,
          atStart, issued, nLookupOk, nCreated, suOk, suFailed, soSeen>>

\* ---- the user store (specification 4.1) ------------------------------------
UserRecords(us, username) == {r \in us : r.username = username}

\* get_user_uuid(username, password): the identity on an exact match, else None
GetUserUuid(us, username, password) ==
    IF \E r \in us : r.username = username /\ r.password = password
    THEN (CHOOSE r \in us : r.username = username /\ r.password = password).uuid
    ELSE None

\* identities new_v4 can hand to create_user: not the identity of any record
FreshUuids(us) == Uuids \ {r.uuid : r \in us}

\* ---- the session store (specification 4.2) ---------------------------------
LiveTokens(ss) == {s.token : s \in ss}

\* (mutant) create_session returns any token, live ones too
FreshTokens_Any(ss) == Tokens

\* tokens create_session can return: none that is live
FreshTokens(ss) == Tokens \ LiveTokens(ss)

CreateSession(ss, token, uuid) == ss \cup {[token |-> token, uuid |-> uuid]}

DeleteSession(ss, token) == {s \in ss : s.token # token}

\* ---- classification of inputs (history only) -------------------------------
CredClass(us, username, password) ==
    IF UserRecords(us, username) = {} THEN "none"
    ELSE IF GetUserUuid(us, username, password) # None THEN "match"
    ELSE "mismatch"

TokenClass(ss, iss, token) ==
    IF token = EmptyStr THEN "empty"
    ELSE IF token \in LiveTokens(ss) THEN "live"
    ELSE IF token \in iss THEN "dead"
    ELSE "never"

\* how the token of a SignOut relates to the session store: without session,
\* the only session of its identity, or one of several sessions of its identity
SessClass(ss, token) ==
    IF token \notin LiveTokens(ss) THEN "none"
    ELSE IF \E s1, s2 \in ss : s1.token = token /\ s2.token # token /\ s2.uuid = s1.uuid
         THEN "shared"
    ELSE "single"

\* a task is free to serve a request before its first one and after a handler returned
Idle(p) == pc[p] \in {"idle", "done"}

InFlight(op) == {p \in Procs : req[p].op = op /\ pc[p] \notin {"idle", "done"}}

\* ---- tokio::sync::RwLock ---------------------------------------------------
\* (mutant) a read guard that does not wait for the holder of the write guard
UsersReadFree_Always == TRUE

\* a read guard is granted while no task holds the write guard
UsersReadFree == usersWr = {}

\* (mutant) a write guard that does not wait for the holder of the write guard
UsersWriteFree_Shared == usersRd = {}

\* the write guard is granted while no task holds any guard
UsersWriteFree == usersWr = {} /\ usersRd = {}

SessWriteFree == sessWr = {}

Init ==
    /\ users = {}
    /\ sessions = {}
    /\ usersRd = {}
    /\ usersWr = {}
    /\ sessWr = {}
    /\ pc = [p \in Procs |-> "idle"]
    /\ req = [p \in Procs |-> NoReq]
    /\ result = [p \in Procs |-> None]
    /\ resp = [p \in Procs |-> NoResp]
    /\ nReq = 0
    /\ nOut = 0
    /\ atStart = [p \in Procs |-> "none"]
    /\ issued = {}
    /\ nLookupOk = 0
    /\ nCreated = 0
    /\ suOk = [u \in Usernames |-> 0]
    /\ suFailed = {}
    /\ soSeen = {}

\* ---- sign_up (auth.rs 89-115) ---------------------------------------------
\* a SignUpRequest arrives and the task reaches `.write().await`
SignUpStart(p) ==
    /\ Idle(p)
    /\ nReq < MaxReqs
    /\ Cardinality(users) + Cardinality(InFlight("SignUp")) < NumUuids
    /\ \E u \in Usernames, pw \in Passwords :
          /\ req' = [req EXCEPT ![p] = [op |-> "SignUp", username |-> u, password |-> pw,
                                        session_token |-> EmptyStr]]
          /\ atStart' = [atStart EXCEPT ![p] = CredClass(users, u, pw)]
    /\ pc' = [pc EXCEPT ![p] = "su_wait"]
    /\ result' = [result EXCEPT ![p] = None]
    /\ resp' = [resp EXCEPT ![p] = NoResp]
    /\ nReq' = nReq + 1
    /\ UNCHANGED <<stores, locks, nOut, issued, nLookupOk, nCreated, suOk, suFailed, soSeen>>

\* (mutant) sign_up asks for `.read()` where it must ask for `.write()`
SignUpLock_Read(p) ==
    /\ pc[p] = "su_wait"
    /\ UsersReadFree
    /\ usersRd' = usersRd \cup {p}
    /\ pc' = [pc EXCEPT ![p] = "su_lookup"]
    /\ UNCHANGED <<stores, usersWr, sessWr, req, result, resp, nReq, nOut, hist>>

\* users_service.write().await is granted
SignUpLock(p) ==
    /\ pc[p] = "su_wait"
    /\ UsersWriteFree
    /\ usersWr' = usersWr \cup {p}
    /\ pc' = [pc EXCEPT ![p] = "su_lookup"]
    /\ UNCHANGED <<stores, usersRd, sessWr, req, result, resp, nReq, nOut,
                   atStart, issued, nLookupOk, nCreated, suOk, suFailed, soSeen>>

\* create_user, first half: is the username taken?
SignUpLookup(p) ==
    /\ pc[p] = "su_lookup"
    /\ result' = [result EXCEPT ![p] =
                    IF UserRecords(users, req[p].username) # {} THEN 1 ELSE None]
    /\ pc' = [pc EXCEPT ![p] = "su_insert"]
    /\ UNCHANGED <<stores, locks, req, resp, nReq, nOut, hist>>

\* (mutant) the two arms of `match result` carry each other's status
SignUpReply_Swapped(res) ==
    IF res = "Ok" THEN [NoResp EXCEPT !.status_code = Failure]
    ELSE [NoResp EXCEPT !.status_code = Success]

\* (mutant) every SignUp is answered Success
SignUpReply_AlwaysOk(res) == [NoResp EXCEPT !.status_code = Success]

\* `match result` of sign_up: Ok(_) replies Success, Err(_) replies Failure
SignUpReply(res) ==
    IF res = "Ok" THEN [NoResp EXCEPT !.status_code = Success]
    ELSE [NoResp EXCEPT !.status_code = Failure]

\* (mutant) sign_up signs the new user in: it creates a session after create_user
SignUpFinish_AutoSignIn(p) ==
    /\ pc[p] = "su_insert"
    /\ LET u == req[p].username IN
       \/ /\ result[p] # None
          /\ users' = users
          /\ sessions' = sessions
          /\ resp' = [resp EXCEPT ![p] = SignUpReply("Err")]
          /\ suFailed' = suFailed \cup {u}
          /\ suOk' = suOk
       \/ /\ result[p] = None
          /\ \E id \in FreshUuids(users) :
                /\ users' = users \cup {[username |-> u, uuid |-> id, password |-> req[p].password]}
                /\ \E t \in Tokens : sessions' = CreateSession(sessions, t, id)
          /\ resp' = [resp EXCEPT ![p] = SignUpReply("Ok")]
          /\ suOk' = [suOk EXCEPT ![u] = @ + 1]
          /\ suFailed' = suFailed
    /\ usersWr' = usersWr \ {p}
    /\ pc' = [pc EXCEPT ![p] = "done"]
    /\ UNCHANGED <<usersRd, sessWr, req, result, nReq, nOut,
                   atStart, issued, nLookupOk, nCreated, soSeen>>

\* create_user, second half (Err(UsernameExists) or the insertion of a record
\* with a new identity), the drop of the write guard, and the reply
SignUpFinish(p) ==
    /\ pc[p] = "su_insert"
    /\ LET u == req[p].username IN
       \/ /\ result[p] # None
          /\ users' = users
          /\ resp' = [resp EXCEPT ![p] = SignUpReply("Err")]
          /\ suFailed' = suFailed \cup {u}
          /\ suOk' = suOk
       \/ /\ result[p] = None
          /\ \E id \in FreshUuids(users) :
                users' = users \cup {[username |-> u, uuid |-> id, password |-> req[p].password]}
          /\ resp' = [resp EXCEPT ![p] = SignUpReply("Ok")]
          /\ suOk' = [suOk EXCEPT ![u] = @ + 1]
          /\ suFailed' = suFailed
    /\ usersWr' = usersWr \ {p}
    /\ pc' = [pc EXCEPT ![p] = "done"]
    /\ UNCHANGED <<sessions, usersRd, sessWr, req, result, nReq, nOut,
                   atStart, issued, nLookupOk, nCreated, soSeen>>

\* ---- sign_in (auth.rs 42-87) ----------------------------------------------
\* a SignInRequest arrives and the task reaches `.read().await`
SignInStart(p) ==
    /\ Idle(p)
    /\ nReq < MaxReqs
    /\ Cardinality(sessions) + Cardinality(InFlight("SignIn")) < NumTokens
    /\ \E u \in Usernames, pw \in Passwords :
          /\ req' = [req EXCEPT ![p] = [op |-> "SignIn", username |-> u, password |-> pw,
                                        session_token |-> EmptyStr]]
          /\ atStart' = [atStart EXCEPT ![p] = CredClass(users, u, pw)]
    /\ pc' = [pc EXCEPT ![p] = "si_wait"]
    /\ result' = [result EXCEPT ![p] = None]
    /\ resp' = [resp EXCEPT ![p] = NoResp]
    /\ nReq' = nReq + 1
    /\ UNCHANGED <<stores, locks, nOut, issued, nLookupOk, nCreated, suOk, suFailed, soSeen>>

\* users_service.read().await is granted
SignInLock(p) ==
    /\ pc[p] = "si_wait"
    /\ UsersReadFree
    /\ usersRd' = usersRd \cup {p}
    /\ pc' = [pc EXCEPT ![p] = "si_lookup"]
    /\ UNCHANGED <<stores, usersWr, sessWr, req, result, resp, nReq, nOut,
                   atStart, issued, nLookupOk, nCreated, suOk, suFailed, soSeen>>

\* (mutant) the None arm answers with the identity of the username's record
SignInFailureReply_Leak(p) ==
    [status_code |-> Failure,
     user_uuid |-> IF UserRecords(users, req[p].username) = {} THEN EmptyStr
                   ELSE (CHOOSE r \in UserRecords(users, req[p].username) : TRUE).uuid,
     session_token |-> EmptyStr]

\* (mutant) the None arm answers Success
SignInFailureReply_Status(p) ==
    [status_code |-> Success, user_uuid |-> EmptyStr, session_token |-> EmptyStr]

\* (mutant) the None arm answers with the username in place of the identity
SignInFailureReply_Echo(p) ==
    [status_code |-> Failure, user_uuid |-> req[p].username, session_token |-> EmptyStr]

\* the reply of the None arm of `match result`
SignInFailureReply(p) ==
    [status_code |-> Failure, user_uuid |-> EmptyStr, session_token |-> EmptyStr]

\* (mutant) the reply carries the token in the place of the identity
SignInSuccessReply_TokenTwice(user_uuid, session_token) ==
    [status_code |-> Success, user_uuid |-> session_token, session_token |-> session_token]

\* (mutant) the reply carries the identity in the place of the token
SignInSuccessReply_Swapped(user_uuid, session_token) ==
    [status_code |-> Success, user_uuid |-> user_uuid, session_token |-> user_uuid]

\* (mutant) the reply does not carry the token create_session returned
SignInSuccessReply_NoToken(user_uuid, session_token) ==
    [status_code |-> Success, user_uuid |-> user_uuid, session_token |-> EmptyStr]

\* the reply built after create_session
SignInSuccessReply(user_uuid, session_token) ==
    [status_code |-> Success, user_uuid |-> user_uuid, session_token |-> session_token]

\* (mutant) the None arm does not return
IsSome_Always(found) == TRUE

\* `match result`: the Some(uuid) arm is taken
IsSome(found) == found # None

\* (mutant) sign_in keeps the read guard of users_service in a local and so
\* holds it while it awaits sessions_service
SignInLookup_KeepGuard(p) ==
    /\ pc[p] = "si_lookup"
    /\ LET found == GetUserUuid(users, req[p].username, req[p].password) IN
       /\ result' = [result EXCEPT ![p] = found]
       /\ nLookupOk' = IF found # None THEN nLookupOk + 1 ELSE nLookupOk
       /\ IF IsSome(found)
          THEN /\ resp' = resp
               /\ pc' = [pc EXCEPT ![p] = "ss_wait"]
          ELSE /\ resp' = [resp EXCEPT ![p] = SignInFailureReply(p)]
               /\ pc' = [pc EXCEPT ![p] = "done"]
    /\ usersRd' = usersRd
    /\ UNCHANGED <<stores, usersWr, sessWr, req, nReq, nOut,
                   atStart, issued, nCreated, suOk, suFailed, soSeen>>

\* get_user_uuid through the read guard, the drop of the guard, and `match
\* result`: None replies Failure at once, Some(uuid) goes on to `.write().await`
\* on sessions_service
SignInLookup(p) ==
    /\ pc[p] = "si_lookup"
    /\ LET found == GetUserUuid(users, req[p].username, req[p].password) IN
       /\ result' = [result EXCEPT ![p] = found]
       /\ nLookupOk' = IF found # None THEN nLookupOk + 1 ELSE nLookupOk
       /\ IF IsSome(found)
          THEN /\ resp' = resp
               /\ pc' = [pc EXCEPT ![p] = "ss_wait"]
          ELSE /\ resp' = [resp EXCEPT ![p] = SignInFailureReply(p)]
               /\ pc' = [pc EXCEPT ![p] = "done"]
    /\ usersRd' = usersRd \ {p}
    /\ UNCHANGED <<stores, usersWr, sessWr, req, nReq, nOut,
                   atStart, issued, nCreated, suOk, suFailed, soSeen>>

\* sessions_service.write().await is granted
SignInSessLock(p) ==
    /\ pc[p] = "ss_wait"
    /\ SessWriteFree
    /\ sessWr' = sessWr \cup {p}
    /\ pc' = [pc EXCEPT ![p] = "ss_create"]
    /\ UNCHANGED <<stores, usersRd, usersWr, req, result, resp, nReq, nOut, hist>>

\* create_session(&user_uuid) through the write guard, the drop of the guard,
\* and the Success reply
SignInCreate(p) ==
    /\ pc[p] = "ss_create"
    /\ \E t \in FreshTokens(sessions) :
          /\ sessions' = CreateSession(sessions, t, result[p])
          /\ resp' = [resp EXCEPT ![p] = SignInSuccessReply(result[p], t)]
          /\ issued' = issued \cup {t}
    /\ nCreated' = nCreated + 1
    /\ sessWr' = sessWr \ {p}
    /\ pc' = [pc EXCEPT ![p] = "done"]
    /\ UNCHANGED <<users, usersRd, usersWr, req, result, nReq, nOut,
                   atStart, nLookupOk, suOk, suFailed, soSeen>>

\* ---- sign_out (auth.rs 117-137) -------------------------------------------
\* a SignOutRequest arrives and the task reaches `.write().await`
SignOutStart(p) ==
    /\ Idle(p)
    /\ nOut < MaxSignOuts
    /\ \E t \in {EmptyStr} \cup Tokens :
          /\ req' = [req EXCEPT ![p] = [op |-> "SignOut", username |-> EmptyStr,
                                        password |-> EmptyStr, session_token |-> t]]
          /\ atStart' = [atStart EXCEPT ![p] = SessClass(sessions, t)]
    /\ pc' = [pc EXCEPT ![p] = "so_wait"]
    /\ result' = [result EXCEPT ![p] = None]
    /\ resp' = [resp EXCEPT ![p] = NoResp]
    /\ nOut' = nOut + 1
    /\ UNCHANGED <<stores, locks, nReq, issued, nLookupOk, nCreated, suOk, suFailed, soSeen>>

\* sessions_service.write().await is granted
SignOutLock(p) ==
    /\ pc[p] = "so_wait"
    /\ SessWriteFree
    /\ sessWr' = sessWr \cup {p}
    /\ pc' = [pc EXCEPT ![p] = "so_delete"]
    /\ UNCHANGED <<stores, usersRd, usersWr, req, result, resp, nReq, nOut,
                   atStart, issued, nLookupOk, nCreated, suOk, suFailed, soSeen>>

\* (mutant) sign_out passes an empty token to delete_session
SignOutToken_Empty(p) == EmptyStr

\* the argument of delete_session: &req.session_token
SignOutToken(p) == req[p].session_token

\* (mutant) sign_out answers Failure when the token has no session
SignOutReply_Checked(p) ==
    [status_code |-> IF req[p].session_token \in LiveTokens(sessions) THEN Success ELSE Failure,
     user_uuid |-> EmptyStr, session_token |-> EmptyStr]

\* the reply of sign_out
SignOutReply(p) ==
    [status_code |-> Success, user_uuid |-> EmptyStr, session_token |-> EmptyStr]

\* delete_session(&req.session_token) through the write guard, the drop of the
\* guard, and the reply
SignOutFinish(p) ==
    /\ pc[p] = "so_delete"
    /\ sessions' = DeleteSession(sessions, SignOutToken(p))
    /\ resp' = [resp EXCEPT ![p] = SignOutReply(p)]
    /\ soSeen' = soSeen \cup {TokenClass(sessions, issued, req[p].session_token)}
    /\ sessWr' = sessWr \ {p}
    /\ pc' = [pc EXCEPT ![p] = "done"]
    /\ UNCHANGED <<users, usersRd, usersWr, req, result, nReq, nOut,
                   atStart, issued, nLookupOk, nCreated, suOk, suFailed>>

Next ==
    \/ \E p \in Procs : SignUpStart(p)
    \/ \E p \in Procs : SignUpLock(p)
    \/ \E p \in Procs : SignUpLookup(p)
    \/ \E p \in Procs : SignUpFinish(p)
    \/ \E p \in Procs : SignInStart(p)
    \/ \E p \in Procs : SignInLock(p)
    \/ \E p \in Procs : SignInLookup(p)
    \/ \E p \in Procs : SignInSessLock(p)
    \/ \E p \in Procs : SignInCreate(p)
    \/ \E p \in Procs : SignOutStart(p)
    \/ \E p \in Procs : SignOutLock(p)
    \/ \E p \in Procs : SignOutFinish(p)

Spec == Init /\ [][Next]_vars

\* ---- the health-check client (health-check-service/main.rs 24-81) -----------
\* The calls of the client are served by task HcTask, one after the other; the
\* other tasks serve other clients, which use other usernames and do not sign
\* out the token the client holds.
HcTask == 1
\* the username of the client (Uuid::new_v4 in the source): no other client has it
HcUser == 1

\* the token the client holds: the one its SignIn returned
HcToken ==
    IF req[HcTask].op = "SignIn" /\ pc[HcTask] = "done" THEN resp[HcTask].session_token
    ELSE IF req[HcTask].op = "SignOut" THEN req[HcTask].session_token
    ELSE EmptyStr

\* client.sign_up(request).await
HcSignUp ==
    /\ pc[HcTask] = "idle"
    /\ SignUpStart(HcTask)
    /\ req'[HcTask].username = HcUser

\* (mutant) the client signs in with another password than it signed up with
HcSignIn_NewPassword ==
    /\ pc[HcTask] = "done" /\ req[HcTask].op = "SignUp"
    /\ SignInStart(HcTask)
    /\ req'[HcTask].username = req[HcTask].username
    /\ req'[HcTask].password # req[HcTask].password

\* client.sign_in(request).await with the username and password of the sign-up
HcSignIn ==
    /\ pc[HcTask] = "done" /\ req[HcTask].op = "SignUp"
    /\ SignInStart(HcTask)
    /\ req'[HcTask].username = req[HcTask].username
    /\ req'[HcTask].password = req[HcTask].password

\* client.sign_out(request).await with response.session_token
HcSignOut ==
    /\ pc[HcTask] = "done" /\ req[HcTask].op = "SignIn"
    /\ SignOutStart(HcTask)
    /\ req'[HcTask].session_token = resp[HcTask].session_token

\* requests of the other clients
OtherSignUp(p) == p # HcTask /\ SignUpStart(p) /\ req'[p].username # HcUser
OtherSignIn(p) == p # HcTask /\ SignInStart(p) /\ req'[p].username # HcUser
OtherSignOut(p) ==
    /\ p # HcTask
    /\ SignOutStart(p)
    /\ req'[p].session_token = EmptyStr \/ req'[p].session_token # HcToken

NextClient ==
    \/ HcSignUp
    \/ HcSignIn
    \/ HcSignOut
    \/ \E p \in Procs : OtherSignUp(p)
    \/ \E p \in Procs : OtherSignIn(p)
    \/ \E p \in Procs : OtherSignOut(p)
    \/ \E p \in Procs : SignUpLock(p)
    \/ \E p \in Procs : SignUpLookup(p)
    \/ \E p \in Procs : SignUpFinish(p)
    \/ \E p \in Procs : SignInLock(p)
    \/ \E p \in Procs : SignInLookup(p)
    \/ \E p \in Procs : SignInSessLock(p)
    \/ \E p \in Procs : SignInCreate(p)
    \/ \E p \in Procs : SignOutLock(p)
    \/ \E p \in Procs : SignOutFinish(p)

SpecClient == Init /\ [][NextClient]_vars

\* the runtime polls every task that can run, and the RwLock grants a guard to
\* every task that keeps asking for it (tokio's RwLock queues its waiters)
Fairness ==
    \A p \in Procs :
        /\ WF_vars(SignUpLookup(p)) /\ WF_vars(SignUpFinish(p))
        /\ WF_vars(SignInLookup(p)) /\ WF_vars(SignInCreate(p))
        /\ WF_vars(SignOutFinish(p))
        /\ SF_vars(SignUpLock(p)) /\ SF_vars(SignInLock(p))
        /\ SF_vars(SignInSessLock(p)) /\ SF_vars(SignOutLock(p))

\* the service of the tests with part of the request budget spent: the fair
\* behaviours are checked on the requests that remain
InitLive ==
    /\ users = {[username |-> 1, uuid |-> 1, password |-> 1]}
    /\ sessions = {}
    /\ usersRd = {}
    /\ usersWr = {}
    /\ sessWr = {}
    /\ pc = [p \in Procs |-> "idle"]
    /\ req = [p \in Procs |-> NoReq]
    /\ result = [p \in Procs |-> None]
    /\ resp = [p \in Procs |-> NoResp]
    /\ nReq = 1
    /\ nOut = 2
    /\ atStart = [p \in Procs |-> "none"]
    /\ issued = {}
    /\ nLookupOk = 0
    /\ nCreated = 0
    /\ suOk = [u \in Usernames |-> 0]
    /\ suFailed = {}
    /\ soSeen = {}

FairSpec == InitLive /\ [][Next]_vars /\ Fairness

\* the service built on a user store that already holds a record, as the tests
\* build it: create_user("123456", "654321") on UsersImpl::default() before
\* AuthService::new
InitSeeded ==
    /\ users = {[username |-> 1, uuid |-> 1, password |-> 1]}
    /\ sessions = {}
    /\ usersRd = {}
    /\ usersWr = {}
    /\ sessWr = {}
    /\ pc = [p \in Procs |-> "idle"]
    /\ req = [p \in Procs |-> NoReq]
    /\ result = [p \in Procs |-> None]
    /\ resp = [p \in Procs |-> NoResp]
    /\ nReq = 0
    /\ nOut = 0
    /\ atStart = [p \in Procs |-> "none"]
    /\ issued = {}
    /\ nLookupOk = 0
    /\ nCreated = 0
    /\ suOk = [u \in Usernames |-> 0]
    /\ suFailed = {}
    /\ soSeen = {}

SpecSeeded == InitSeeded /\ [][Next]_vars

TypeOK ==
    /\ \A r \in users : r.username \in Usernames /\ r.uuid \in Uuids /\ r.password \in Passwords
    /\ \A s \in sessions : s.token \in Tokens /\ s.uuid \in Uuids
    /\ usersRd \subseteq Procs /\ usersWr \subseteq Procs /\ sessWr \subseteq Procs
    /\ nReq \in 0..MaxReqs /\ nOut \in 0..MaxSignOuts

\* ---- properties ------------------------------------------------------------
Done(p, op) == pc[p] = "done" /\ req[p].op = op

\* the task's handler returns in this step
Returns(p, op) == req[p].op = op /\ pc[p] # "done" /\ pc'[p] = "done"

FailureReply == [status_code |-> Failure, user_uuid |-> EmptyStr, session_token |-> EmptyStr]

\* C1: however the SignUp requests for one username interleave, exactly one of
\* them is answered Success and all the others Failure: there are never two
\* Success replies, and once any reply was Failure there is one Success reply.
\* The lookup and the insertion of create_user run under one hold of the
\* write guard of the user store.
C1_OneSignUpSucceeds ==
    /\ \A u \in Usernames : suOk[u] <= 1 /\ (u \in suFailed => suOk[u] = 1)
    /\ \A p \in Procs : Done(p, "SignUp") => resp[p].status_code \in {Success, Failure}
    /\ \A p \in Procs : pc[p] \in {"su_lookup", "su_insert"} => p \in usersWr

\* two SignUp requests for one username, both arrived before it was
\* registered, have been answered: one Success, one Failure
C1_Witness ==
    \E p, q \in Procs :
        /\ p # q /\ Done(p, "SignUp") /\ Done(q, "SignUp")
        /\ req[p].username = req[q].username
        /\ atStart[p] = "none" /\ atStart[q] = "none"
        /\ resp[p].status_code = Success /\ resp[q].status_code = Failure

\* C2 (as stated): in every reachable state the number of sessions ever created
\* equals the number of SignIn requests whose lookup returned an identity.
C2_Original == nCreated = nLookupOk

\* SignIn requests whose lookup returned an identity and whose create_session
\* has not run yet
PendingSessions == {p \in Procs : pc[p] \in {"ss_wait", "ss_create"}}

\* C2 (amended): the sessions ever created plus the SignIn requests that are
\* between their successful lookup and their create_session equal the lookups
\* that returned an identity (so no session precedes its lookup, and the two
\* numbers agree whenever no SignIn is in between), and the step in which a
\* SignIn returns Failure leaves the session store unchanged.
C2_FailedSignInCreatesNoSession ==
    /\ [](nCreated + Cardinality(PendingSessions) = nLookupOk)
    /\ [][\A p \in Procs :
            (Returns(p, "SignIn") /\ resp'[p].status_code = Failure) => sessions' = sessions]_vars

\* a SignIn has returned Failure, another has created a session
C2_Witness ==
    /\ nCreated = 1 /\ nLookupOk = 1
    /\ \E p \in Procs : Done(p, "SignIn") /\ resp[p].status_code = Failure

\* C3: a SignIn with a registered (username, password) pair returns Success,
\* a non-empty identity (the one of the record) and a non-empty token, and
\* when it returns that token is in the session store mapped to that identity.
C3_SignInSucceeds ==
    [][\A p \in Procs :
         (Returns(p, "SignIn") /\ atStart[p] = "match") =>
            LET r == resp'[p] IN
            /\ r.status_code = Success
            /\ r.user_uuid # EmptyStr
            /\ r.session_token # EmptyStr
            /\ [token |-> r.session_token, uuid |-> r.user_uuid] \in sessions'
            /\ \E rec \in users : /\ rec.username = req[p].username
                                  /\ rec.password = req[p].password
                                  /\ rec.uuid = r.user_uuid]_vars

\* a SignIn with a registered pair has returned Success
C3_Witness ==
    \E p \in Procs : /\ Done(p, "SignIn") /\ atStart[p] = "match"
                     /\ resp[p].status_code = Success
                     /\ resp[p].session_token \in LiveTokens(sessions)

\* C4: a SignIn with a registered username and a password other than the
\* registered one returns Failure with empty identity and empty token.
C4_WrongPasswordFails ==
    \A p \in Procs : (Done(p, "SignIn") /\ atStart[p] = "mismatch") => resp[p] = FailureReply

\* a SignIn with a wrong password has returned
C4_Witness ==
    \E p \in Procs : /\ Done(p, "SignIn") /\ atStart[p] = "mismatch"
                     /\ resp[p].status_code = Failure

\* C5: a SignIn with a username for which no SignUp has succeeded returns
\* Failure with empty identity and empty token.
C5_UnknownUserFails ==
    \A p \in Procs :
        (Done(p, "SignIn") /\ suOk[req[p].username] = 0) => resp[p] = FailureReply

\* a SignIn with an unregistered username has returned while another username
\* is registered
C5_Witness ==
    \E p \in Procs : /\ Done(p, "SignIn") /\ suOk[req[p].username] = 0
                     /\ resp[p].status_code = Failure
                     /\ users # {}

\* C6: a SignUp that is answered Failure found the username registered by
\* another SignUp (so a SignUp with an unregistered username is answered
\* Success, and its record is then in the store), and a SignUp that arrives
\* after the username was registered is answered Failure.
C6_SignUpOncePerUsername ==
    \A p \in Procs : Done(p, "SignUp") =>
        /\ atStart[p] # "none" => resp[p].status_code = Failure
        /\ resp[p].status_code = Failure => suOk[req[p].username] >= 1
        /\ resp[p].status_code = Success =>
              \E rec \in users : /\ rec.username = req[p].username
                                 /\ rec.password = req[p].password
        /\ resp[p].status_code \in {Success, Failure}

\* a username was registered, and later SignUps with the same and with another
\* password were answered Failure
C6_Witness ==
    \E p, q \in Procs :
        /\ p # q /\ Done(p, "SignUp") /\ Done(q, "SignUp")
        /\ atStart[p] = "match" /\ atStart[q] = "mismatch"
        /\ resp[p].status_code = Failure /\ resp[q].status_code = Failure

\* C7: SignOut is answered Success whatever the token: empty, never issued,
\* live, or already signed out.
C7_SignOutAlwaysSucceeds ==
    \A p \in Procs : Done(p, "SignOut") => resp[p].status_code = Success

\* SignOut has been answered for a token of each of the four kinds
C7_Witness ==
    /\ soSeen = {"empty", "never", "live", "dead"}
    /\ \E p \in Procs : Done(p, "SignOut") /\ resp[p].status_code = Success

\* C8: when SignOut(T) returns, T is not in the session store, the reply is
\* Success, the user store is unchanged and so are the sessions of all other
\* tokens; when T had no session (it was signed out before) the session store
\* is unchanged as well.
C8_SignOutIdempotent ==
    [][\A p \in Procs :
         Returns(p, "SignOut") =>
            LET T == req[p].session_token IN
            /\ T \notin LiveTokens(sessions')
            /\ resp'[p].status_code = Success
            /\ users' = users
            /\ {s \in sessions' : s.token # T} = {s \in sessions : s.token # T}
            /\ T \notin LiveTokens(sessions) => sessions' = sessions]_vars

\* a live token was signed out, and a SignOut of a token that was signed out
\* before has returned
C8_Witness ==
    /\ {"live", "dead"} \subseteq soSeen
    /\ \E p \in Procs : /\ Done(p, "SignOut")
                        /\ req[p].session_token \in issued \ LiveTokens(sessions)

\* C9: a SignIn that fails because the username is unregistered and a SignIn
\* that fails because the password is wrong get the same reply, and the step
\* in which either returns leaves the session store as it was.
C9_FailureReasonHidden ==
    /\ [](\A p, q \in Procs :
            (/\ Done(p, "SignIn") /\ suOk[req[p].username] = 0
             /\ Done(q, "SignIn") /\ atStart[q] = "mismatch") => resp[p] = resp[q])
    /\ [][\A p \in Procs :
            (Returns(p, "SignIn") /\ atStart[p] # "match" /\ result'[p] = None)
               => sessions' = sessions]_vars

\* the replies to a SignIn with an unregistered username and to a SignIn with
\* a wrong password are both at hand
C9_Witness ==
    \E p, q \in Procs :
        /\ Done(p, "SignIn") /\ suOk[req[p].username] = 0
        /\ Done(q, "SignIn") /\ atStart[q] = "mismatch"
        /\ resp[q].status_code = Failure

\* C10: the user store never holds two credential records with one username.
C10_UniqueUsername ==
    \A r1, r2 \in users : r1.username = r2.username => r1 = r2

\* two usernames are registered and a further SignUp was refused
C10_Witness ==
    /\ Cardinality({r.username : r \in users}) = 2
    /\ suFailed # {}

\* C11: the token a successful SignIn returns had no session when
\* create_session ran, the step keeps every session there was, and so no two
\* session records ever share a token.
C11_TokenMapsToOneIdentity ==
    /\ [](\A s1, s2 \in sessions : s1.token = s2.token => s1 = s2)
    /\ [][\A p \in Procs :
            (Returns(p, "SignIn") /\ resp'[p].status_code = Success) =>
               /\ resp'[p].session_token \notin LiveTokens(sessions)
               /\ sessions \subseteq sessions']_vars

\* a SignIn has returned a token while a session of another identity was live,
\* and both sessions are in the store
C11_Witness ==
    \E p \in Procs :
        /\ Done(p, "SignIn") /\ resp[p].status_code = Success
        /\ \E s1, s2 \in sessions :
              /\ s1.token = resp[p].session_token /\ s1.uuid = resp[p].user_uuid
              /\ s2.token # s1.token /\ s2.uuid # s1.uuid

\* C12: when a SignIn returns Success while the token of an earlier successful
\* SignIn for the same username is still live, the two tokens differ and both
\* sessions are in the store; when SignOut(T) returns, the session of T is
\* gone and every other session, of the same user or of another, is still there.
C12_SessionsIndependent ==
    /\ [][\A p, q \in Procs :
            (/\ p # q
             /\ Returns(q, "SignIn") /\ resp'[q].status_code = Success
             /\ Done(p, "SignIn") /\ resp[p].status_code = Success
             /\ req[p].username = req[q].username
             /\ resp[p].session_token \in LiveTokens(sessions))
            => /\ resp'[q].session_token # resp[p].session_token
               /\ resp'[q].user_uuid = resp[p].user_uuid
               /\ [token |-> resp[p].session_token, uuid |-> resp[p].user_uuid] \in sessions'
               /\ [token |-> resp'[q].session_token, uuid |-> resp'[q].user_uuid] \in sessions']_vars
    /\ [][\A p \in Procs :
            Returns(p, "SignOut") =>
               /\ sessions' = {s \in sessions : s.token # req[p].session_token}
               /\ Cardinality(sessions \ sessions') <= 1]_vars

\* a user had two sessions at once; one of the two tokens was signed out and
\* the other session is still live
C12_Witness ==
    /\ Cardinality(sessions) = 1
    /\ \E p, q \in Procs :
          /\ Done(p, "SignOut") /\ atStart[p] = "shared"
          /\ req[p].session_token \notin LiveTokens(sessions)
          /\ Done(q, "SignIn") /\ resp[q].status_code = Success
          /\ resp[q].session_token \in LiveTokens(sessions)
          /\ resp[q].session_token # req[p].session_token

\* the locks a task holds
HeldOnUsers(p) == p \in usersRd \cup usersWr
HeldOnSessions(p) == p \in sessWr

\* a step of a request that has arrived
Progress(p) ==
    \/ SignUpLock(p) \/ SignUpLookup(p) \/ SignUpFinish(p)
    \/ SignInLock(p) \/ SignInLookup(p) \/ SignInSessLock(p) \/ SignInCreate(p)
    \/ SignOutLock(p) \/ SignOutFinish(p)

\* C13: no task holds a guard of the user store and a guard of the session
\* store at once: a SignIn holds the read guard only during its lookup and the
\* session guard only during create_session, a SignUp holds only the write
\* guard of the user store, a SignOut only the guard of the session store;
\* and whenever a request is in flight some request in flight can take a step.
C13_NoTwoLocksNoDeadlock ==
    /\ \A p \in Procs :
          /\ ~(HeldOnUsers(p) /\ HeldOnSessions(p))
          /\ p \in usersRd <=> pc[p] = "si_lookup"
          /\ p \in usersWr <=> pc[p] \in {"su_lookup", "su_insert"}
          /\ p \in sessWr <=> pc[p] \in {"ss_create", "so_delete"}
          /\ pc[p] = "ss_wait" => ~HeldOnUsers(p)
    /\ (\E p \in Procs : ~Idle(p)) => ENABLED (\E p \in Procs : Progress(p))

\* a SignIn holds the guard of the session store, having released the user
\* store, whose write guard a SignUp holds at the same time
C13_Witness ==
    \E p, q \in Procs :
        /\ pc[p] = "ss_create" /\ HeldOnSessions(p) /\ ~HeldOnUsers(p)
        /\ pc[q] \in {"su_lookup", "su_insert"} /\ q \in usersWr

\* C14: while a task holds the write guard of a store no other task holds any
\* guard of that store; a step that changes the user store is taken by the
\* SignUp that holds its write guard, a step that changes the session store by
\* the SignIn or SignOut that holds its write guard; a task that holds only a
\* read guard leaves both stores as they are.
C14_MutationUnderExclusiveLock ==
    /\ [](/\ Cardinality(usersWr) <= 1
          /\ Cardinality(sessWr) <= 1
          /\ usersWr # {} => usersRd = {})
    /\ [][/\ users' # users =>
               \E p \in Procs : /\ usersWr = {p} /\ usersRd = {}
                                /\ Returns(p, "SignUp")
          /\ sessions' # sessions =>
               \E p \in Procs : /\ sessWr = {p}
                                /\ Returns(p, "SignIn") \/ Returns(p, "SignOut")
          /\ \A p \in usersRd : pc'[p] # pc[p] => UNCHANGED stores]_vars

\* all tasks hold the read guard of the user store at once, after a SignUp
\* has changed the store
C14_Witness ==
    /\ usersRd = Procs
    /\ users # {}
    /\ usersWr = {}

\* C15: under fair scheduling and fair granting of the locks every request
\* that has arrived is answered, whatever the other requests are.
C15_EveryRequestReturns ==
    \A p \in Procs : (~Idle(p)) ~> (pc[p] = "done")

\* a SignIn that arrived before its username was registered, and ran its
\* lookup after a concurrent SignUp had registered it, has been answered
\* Success, and so has the SignUp
C15_Witness ==
    \E p, q \in Procs :
        /\ Done(p, "SignUp") /\ resp[p].status_code = Success
        /\ Done(q, "SignIn") /\ atStart[q] = "none" /\ resp[q].status_code = Success
        /\ req[q].username = req[p].username

\* C16: the step in which a SignUp returns Failure leaves the user store
\* unchanged, and no step removes or alters a record; so for a username on
\* which a SignUp has failed there is still one record, a SignIn with the
\* registered password returns Success with the identity of that record, and
\* a SignIn with another password returns Failure.
C16_FailedSignUpChangesNothing ==
    /\ [][/\ \A p \in Procs :
               (Returns(p, "SignUp") /\ resp'[p].status_code = Failure) => users' = users
          /\ users \subseteq users']_vars
    /\ [](\A u \in suFailed : Cardinality(UserRecords(users, u)) = 1)
    /\ [](\A q \in Procs :
            (Done(q, "SignIn") /\ req[q].username \in suFailed) =>
               /\ atStart[q] = "match" =>
                     /\ resp[q].status_code = Success
                     /\ \E rec \in users : /\ rec.username = req[q].username
                                           /\ rec.password = req[q].password
                                           /\ rec.uuid = resp[q].user_uuid
               /\ atStart[q] = "mismatch" => resp[q] = FailureReply)

\* a SignUp on the registered username has failed, the store is as it was, and
\* a SignIn with the registered password and one with another password have
\* been answered
C16_Witness ==
    /\ users = {[username |-> 1, uuid |-> 1, password |-> 1]}
    /\ 1 \in suFailed
    /\ \E p, q \in Procs :
          /\ Done(p, "SignIn") /\ req[p].username = 1 /\ atStart[p] = "match"
          /\ resp[p].status_code = Success /\ resp[p].user_uuid = 1
          /\ Done(q, "SignIn") /\ req[q].username = 1 /\ atStart[q] = "mismatch"
          /\ resp[q].status_code = Failure

\* C17: a successful SignIn returns the identity of the record of its
\* username; that record is never altered or removed, no two records share a
\* username or an identity; so two successful SignIns return the same identity
\* exactly when they are for the same username.
C17_IdentityFixedAndUnique ==
    /\ [][users \subseteq users']_vars
    /\ [](\A r1, r2 \in users : (r1.username = r2.username \/ r1.uuid = r2.uuid) => r1 = r2)
    /\ [](\A p \in Procs :
            (Done(p, "SignIn") /\ resp[p].status_code = Success) =>
               \E rec \in users : /\ rec.username = req[p].username
                                  /\ rec.uuid = resp[p].user_uuid)
    /\ [](\A p, q \in Procs :
            (/\ Done(p, "SignIn") /\ resp[p].status_code = Success
             /\ Done(q, "SignIn") /\ resp[q].status_code = Success)
            => (req[p].username = req[q].username <=> resp[p].user_uuid = resp[q].user_uuid))

\* SignIns for two usernames have returned two identities
C17_Witness ==
    \E p, q \in Procs :
        /\ Done(p, "SignIn") /\ resp[p].status_code = Success
        /\ Done(q, "SignIn") /\ resp[q].status_code = Success
        /\ req[p].username # req[q].username
        /\ resp[p].user_uuid # resp[q].user_uuid

\* C18: no step of a SignUp changes the session store, whether it is answered
\* Success or Failure; a session record appears only in the step in which a
\* SignIn returns Success, for the identity that SignIn returns; and as long
\* as no SignIn has created a session the store of sessions is empty, however
\* many users have signed up.
C18_SignUpLeavesSessions ==
    /\ [][/\ \A p \in Procs :
               (req'[p].op = "SignUp" /\ pc'[p] # pc[p]) => sessions' = sessions
          /\ \A s \in sessions' \ sessions :
               \E p \in Procs : /\ Returns(p, "SignIn")
                                /\ resp'[p].status_code = Success
                                /\ s.uuid = resp'[p].user_uuid]_vars
    /\ [](nCreated = 0 => sessions = {})

\* a SignUp was answered Success, another Failure, and there is no session
C18_Witness ==
    /\ sessions = {} /\ nCreated = 0
    /\ \E p, q \in Procs :
          /\ Done(p, "SignUp") /\ resp[p].status_code = Success
          /\ Done(q, "SignUp") /\ resp[q].status_code = Failure

\* C19: the client's SignUp with its own username is answered Success, its
\* SignIn with the same credentials is answered Success with a token that is
\* live, its SignOut of that token is answered Success and leaves the token
\* without session, whatever the other clients do on other usernames and tokens.
C19_ClientRoundTrip ==
    [][/\ Returns(HcTask, "SignUp") => resp'[HcTask].status_code = Success
       /\ Returns(HcTask, "SignIn") =>
             /\ resp'[HcTask].status_code = Success
             /\ resp'[HcTask].session_token # EmptyStr
             /\ resp'[HcTask].session_token \in LiveTokens(sessions')
       /\ Returns(HcTask, "SignOut") =>
             /\ resp'[HcTask].status_code = Success
             /\ req[HcTask].session_token # EmptyStr
             /\ req[HcTask].session_token \notin LiveTokens(sessions')]_vars

\* the client has signed up, signed in and signed out its token, and another
\* client has registered another username meanwhile
C19_Witness ==
    /\ Done(HcTask, "SignOut")
    /\ resp[HcTask].status_code = Success
    /\ req[HcTask].session_token \in issued \ LiveTokens(sessions)
    /\ \E r \in users : r.username = HcUser
    /\ \E q \in Procs \ {HcTask} : Done(q, "SignUp") /\ resp[q].status_code = Success

\* C20: the identity of every session, and the identity a SignIn carries from
\* its lookup to its create_session, is the identity of a record of the user
\* store, although other requests run between the two lock holds of sign_in.
C20_SessionsReferToUsers ==
    /\ \A s \in sessions : \E r \in users : r.uuid = s.uuid
    /\ \A p \in Procs :
          pc[p] \in {"ss_wait", "ss_create"} => \E r \in users : r.uuid = result[p]

\* there is a session; a SignIn is between its lookup and its create_session
\* while a SignUp holds the write guard of the user store and is about to
\* insert a record
C20_Witness ==
    /\ sessions # {}
    /\ \E p, q \in Procs :
          /\ pc[p] = "ss_create" /\ result[p] # None
          /\ pc[q] = "su_insert" /\ result[q] = None /\ q \in usersWr

=============================================================================
